---- MODULE Spec2Model ----
(***************************************************************************)
(* Model of the pod-monitor operator's reconciler                          *)
(* (internal/controller/podmonitor_controller.go).                         *)
(*                                                                         *)
(* The pod-restart path: Reconcile -> reconcilePod fetches the pod, walks  *)
(* its container statuses, compares each restart count with the package    *)
(* level map observedRestarts, sets the podLastTerminationInfo gauge and   *)
(* stores the new count.  The map is a plain Go map without any lock, so   *)
(* each statement that touches it is a step of its own and workers         *)
(* interleave between the statements.                                      *)
(*                                                                         *)
(* The certificate path: Reconcile -> reconcileSecret fetches the secret   *)
(* linkerd/linkerd-identity-issuer, walks its data in Go's map order,      *)
(* parses the allow-listed keys and sets the two certificate gauges.       *)
(***************************************************************************)
EXTENDS Integers, Sequences, FiniteSets, TLC

\* ------------------------------------------------------------------ bounds
MaxRestarts == 3
MaxOtherRestarts == 1
MaxEvents == 2
MaxItems == 3

\* --------------------------------------------- what the API server returns
Namespace == "default"
PodNames == {"web", "db"}

\* The container names of each pod, in the order of Status.ContainerStatuses.
ContainersOf(name) == IF name = "web" THEN <<"app", "sidecar">> ELSE <<"app">>

Requests == [namespace : {Namespace}, name : PodNames]

\* What r.Get leaves in "var pod corev1.Pod" when the object does not exist:
\* the zero value.  An existing pod has a non-empty name.
NotFound == [namespace |-> "", name |-> "", statuses |-> <<>>]

\* LastTerminationState.Terminated is a pointer: <<>> is nil, <<t>> points to t.
Nil == <<>>
Ptr(t) == <<t>>
Deref(p) == p[1]

\* The termination record of a container's n-th restart (sample values: the
\* reason alternates, the finish time grows with n).
TerminationOf(n) ==
    IF n % 2 = 1
    THEN [reason |-> "Error", exitCode |-> 1, finishedAt |-> 100 * n]
    ELSE [reason |-> "OOMKilled", exitCode |-> 137, finishedAt |-> 100 * n]

\* The reconcile worker goroutines of the controller.
Workers == {"w1", "w2"}

\* time.Hour, in seconds.
Hour == 3600

\* The one secret of the certificate path, and requests that differ from it
\* in the namespace or in the name only.
IssuerRequest == [namespace |-> "linkerd", name |-> "linkerd-identity-issuer"]
NearRequests ==
    { [namespace |-> "default", name |-> "linkerd-identity-issuer"],
      [namespace |-> "linkerd", name |-> "db"] }
AllRequests == {IssuerRequest} \cup NearRequests

\* The keys a secret's Data may hold here: two certificate files and the
\* private key file.
SecretKeys == {"ca.crt", "crt.pem", "tls.key"}

\* time.Now() at two instants, and the NotAfter of the certificates, in Unix
\* seconds: one certificate has expired at both instants, one expires later.
Times == {1000 * Hour, 1012 * Hour}
ExpiryTimes == {964 * Hour, 1048 * Hour}

\* The bytes under a key: a sequence of items, each a PEM block holding the
\* DER of a certificate or something else, or bytes that are no PEM block.
CertBlock(t) == [pem |-> TRUE, der |-> "certificate", notAfter |-> t]
JunkBlock == [pem |-> TRUE, der |-> "junk", notAfter |-> 0]
NonPEM == [pem |-> FALSE, der |-> "", notAfter |-> 0]
Payloads == {<<>>, <<JunkBlock>>} \cup { <<CertBlock(t)>> : t \in ExpiryTimes }

\* The Data of the secrets r.Get may return: any payload under the
\* certificate files; tls.key, when present, holds a well-formed certificate
\* (the case in which its being passed over shows).
Secrets ==
    { d \in UNION { [K -> Payloads] : K \in SUBSET SecretKeys } :
        "tls.key" \in DOMAIN d => d["tls.key"] = <<CertBlock(1048 * Hour)>> }

\* Those that hold certificate files only.
CertificateSecrets == { d \in Secrets : "tls.key" \notin DOMAIN d }

NoSecret == [namespace |-> "", name |-> "", data |-> <<>>]

\* The byte strings handed to the parser on its own: up to MaxItems items.
EvalItems == {NonPEM, JunkBlock} \cup { CertBlock(t) : t \in ExpiryTimes }
EvalPayloads == UNION { [1..n -> EvalItems] : n \in 0..MaxItems }

NoEvaluation == [cert |-> Nil, err |-> "none"]

VARIABLES
    observedRestarts,        \* the package-level map[string]int32
    podLastTerminationInfo,  \* the GaugeVec: label set -> value
    pc,                      \* per worker: the statement it is at
    pod,                     \* per worker: the pod object r.Get returned
    idx,                     \* per worker: position in the range loop
    returned,                \* what the Reconcile call that returned last returned
    certificateExpirationTime,       \* the GaugeVec: label set -> value
    certificateDaysUntilExpiration,  \* the GaugeVec: label set -> value
    secret,                  \* per worker: the request and the secret r.Get returned
    remaining,               \* per worker: the keys the range loop has not visited
    ctxDone,                 \* the deadline of the reconciliation's ctx has passed
    payload,                 \* the bytes handed to the parser on its own
    evaluated,               \* what the parser returned for them
    exists,                  \* the issuer secret exists in the cluster
    timer,                   \* a RequeueAfter of the issuer request is pending
    queued,                  \* the issuer request is in the work queue
    watched,                 \* history: the key whose history is recorded
    events,                  \* history: the counters published for it, in order
    seen,                    \* history: the counters observed for it so far
    script,                  \* history: its progress along Scenario
    removed,                 \* history: its pod was last reported not found
    ignored,                 \* history: its counters that were observed above
                             \* the stored one without a snapshot, and not
                             \* since with a snapshot
    last,                    \* history: the request dispatched last, the path
                             \* it took, the observations its cleanup deleted
    overlapped               \* history: workers whose pod was reported not
                             \* found to another worker while they ran

program == <<observedRestarts, podLastTerminationInfo, pc, pod, idx, returned>>

\* The history variables: written next to the actions, read by none of them
\* (except events, to bound the model).
history == <<watched, events, seen, script, removed, overlapped, ignored, last>>

\* The state of the certificate path.
certificates ==
    <<certificateExpirationTime, certificateDaysUntilExpiration, secret, remaining>>

\* The parser on its own, and the cluster, the work queue and its timer.
evaluator == <<payload, evaluated>>
queueState == <<exists, timer, queued>>
surroundings == <<evaluator, ctxDone, queueState>>

vars == <<program, certificates, history, surroundings>>

\* ------------------------------------------------------------- pure helpers

\* fmt.Sprintf("%s/%s/%s", pod.Namespace, pod.Name, cs.Name)
containerKey(ns, name, container) == ns \o "/" \o name \o "/" \o container

KeysOfPod(ns, name) ==
    { containerKey(ns, name, ContainersOf(name)[i]) :
        i \in 1..Len(ContainersOf(name)) }

Keys == UNION { KeysOfPod(Namespace, n) : n \in PodNames }

\* A lookup that never finds the stored counter (differs from Lookup).
Lookup_NeverFound(m, k) == 0

\* Reading a Go map: the zero value when the key is absent.
Lookup(m, k) == IF k \in DOMAIN m THEN m[k] ELSE 0

\* An assignment that drops every other key.
Store_Replaces(m, k, v) == [x \in {k} |-> v]

\* m[k] = v
Store(m, k, v) == [x \in DOMAIN m \cup {k} |-> IF x = k THEN v ELSE m[x]]

EmptyMap == [x \in {} |-> 0]

\* ------------------------------------------------------------------ inputs

\* The container statuses the API server may report for one container: a
\* restart count, and a last termination state that is present or (still)
\* absent.  A container that never restarted has none.
StatusesOf(key, container) ==
    { [name |-> container,
       restartCount |-> n,
       terminated |-> IF snapshot THEN Ptr(TerminationOf(n)) ELSE Nil] :
        n \in 0..(IF key = watched THEN MaxRestarts ELSE MaxOtherRestarts),
        snapshot \in BOOLEAN } \
    { [name |-> container, restartCount |-> 0, terminated |-> Ptr(TerminationOf(0))] }

\* The pod objects r.Get may return for a request that is found.
PodObjects(req) ==
    LET cn == ContainersOf(req.name)
        S(i) == StatusesOf(containerKey(req.namespace, req.name, cn[i]), cn[i])
    IN { [namespace |-> req.namespace, name |-> req.name, statuses |-> st] :
           st \in IF Len(cn) = 1
                  THEN { <<a>> : a \in S(1) }
                  ELSE { <<a, b>> : a \in S(1), b \in S(2) } }

\* ------------------------------------------------------ history variables

Max(S) == CHOOSE x \in S : \A y \in S : y <= x

\* seen: the set of counters above zero observed for the watched key, kept
\* while its observations are regular: each one carries a termination
\* snapshot and none has a counter below an earlier one.
SeenNext(h, counter, snapshot) ==
    IF h.regular /\ snapshot /\ counter >= Max(h.counters \cup {0})
    THEN [regular |-> TRUE, counters |-> h.counters \cup ({counter} \ {0})]
    ELSE [regular |-> FALSE, counters |-> {}]

\* The observations of the end-to-end scenario: counter 1 with a snapshot,
\* counter 2 without one, the same again, counter 3 with a snapshot.
Scenario ==
    << [counter |-> 1, snapshot |-> TRUE],
       [counter |-> 2, snapshot |-> FALSE],
       [counter |-> 2, snapshot |-> FALSE],
       [counter |-> 3, snapshot |-> TRUE] >>

Deviated == 0 - 1

\* script: how many observations of the watched key have been made, while
\* they are exactly the first observations of Scenario; Deviated after any
\* other one.
ScriptNext(n, counter, snapshot) ==
    IF /\ n # Deviated
       /\ n < Len(Scenario)
       /\ Scenario[n + 1] = [counter |-> counter, snapshot |-> snapshot]
    THEN n + 1
    ELSE Deviated

\* ------------------------------------------------------------------- Init

NoPod == NotFound
NoResult == [err |-> "none", requeueAfter |-> 0]

\* ctrl.Result{}, nil   and   ctrl.Result{}, err
ResultOk == [err |-> "nil", requeueAfter |-> 0]
ResultErr == [err |-> "fetch", requeueAfter |-> 0]

\* ctrl.Result{RequeueAfter: time.Hour}, nil
ResultRequeue == [err |-> "nil", requeueAfter |-> Hour]

NoDispatch ==
    [req |-> [namespace |-> "", name |-> ""], route |-> "none", cleaned |-> 0,
     again |-> 0, late |-> 0]

Init ==
    /\ observedRestarts = EmptyMap
    /\ podLastTerminationInfo = EmptyMap
    /\ pc = [w \in Workers |-> "idle"]
    /\ pod = [w \in Workers |-> NoPod]
    /\ idx = [w \in Workers |-> 0]
    /\ returned = NoResult
    /\ watched \in Keys
    /\ events = <<>>
    /\ seen = [regular |-> TRUE, counters |-> {}]
    /\ script = 0
    /\ removed = FALSE
    /\ overlapped = {}
    /\ ignored = {}
    /\ last = NoDispatch
    /\ certificateExpirationTime = EmptyMap
    /\ certificateDaysUntilExpiration = EmptyMap
    /\ secret = [w \in Workers |-> NoSecret]
    /\ remaining = [w \in Workers |-> {}]
    /\ ctxDone = FALSE
    /\ payload = <<>>
    /\ evaluated = NoEvaluation
    /\ exists = FALSE
    /\ timer = FALSE
    /\ queued = FALSE

\* ------------------------------------------------- the worker's position

\* The container status the range loop of worker w is at.
cs(w) == pod[w].statuses[idx[w]]

\* The containerKey the worker computed for it (line 152).
KeyOf(w) == containerKey(pod[w].namespace, pod[w].name, cs(w).name)

\* The condition with ">=" for ">" (differs from IsNewEvent).
IsNewEvent_AtLeast(restartCount, stored, terminated) ==
    restartCount >= stored /\ terminated # Nil

\* The condition off by one: the first restart is not counted.
IsNewEvent_SkipsFirst(restartCount, stored, terminated) ==
    restartCount > stored + 1 /\ terminated # Nil

\* The condition accepting only the counter next to the stored one.
IsNewEvent_OnlyNextCounter(restartCount, stored, terminated) ==
    restartCount = stored + 1 /\ terminated # Nil

\* The condition of line 157, given the value read from the map.
IsNewEvent(restartCount, stored, terminated) ==
    restartCount > stored /\ terminated # Nil

\* The labels with the pod's and the container's name exchanged.
Labels_NamesExchanged(w) ==
    [namespace |-> pod[w].namespace,
     pod |-> cs(w).name,
     container |-> pod[w].name,
     reason |-> Deref(cs(w).terminated).reason,
     exit_code |-> ToString(Deref(cs(w).terminated).exitCode)]

\* The labels of line 168-174; exit_code is fmt.Sprintf("%d", ExitCode).
Labels(w) ==
    [namespace |-> pod[w].namespace,
     pod |-> pod[w].name,
     container |-> cs(w).name,
     reason |-> Deref(cs(w).terminated).reason,
     exit_code |-> ToString(Deref(cs(w).terminated).exitCode)]

\* The test on the name alone.
IsSecretRequest_NameOnly(req) == req.name = "linkerd-identity-issuer"

\* The test on the namespace alone.
IsSecretRequest_NamespaceOnly(req) == req.namespace = "linkerd"

\* The Dispatcher's test of line 125.
IsSecretRequest(req) ==
    req.namespace = "linkerd" /\ req.name = "linkerd-identity-issuer"

\* End of one iteration of the range loop: the next container status, or
\* "return ctrl.Result{}, nil" (line 181) after the last one.
NextIteration(w) ==
    IF idx[w] < Len(pod[w].statuses)
    THEN /\ idx' = [idx EXCEPT ![w] = idx[w] + 1]
         /\ pc' = [pc EXCEPT ![w] = "read"]
         /\ UNCHANGED <<pod, returned>>
    ELSE /\ idx' = [idx EXCEPT ![w] = 0]
         /\ pc' = [pc EXCEPT ![w] = "idle"]
         /\ pod' = [pod EXCEPT ![w] = NoPod]
         /\ returned' = ResultOk

\* ----------------------------------------------------- reconciler actions

\* The model stops starting reconciliations once the watched key has had
\* MaxEvents publications (events is the only unbounded part of the state).
WithinBounds == Len(events) < MaxEvents

\* Reconcile -> reconcilePod, r.Get succeeds and returns object p
\* (lines 123-150).
ReconcilePodFound(w, req, p) ==
    /\ pc[w] = "idle"
    /\ WithinBounds
    /\ ~IsSecretRequest(req)
    /\ IF Len(p.statuses) = 0
       THEN /\ returned' = ResultOk
            /\ UNCHANGED <<pc, pod, idx>>
       ELSE /\ pod' = [pod EXCEPT ![w] = p]
            /\ idx' = [idx EXCEPT ![w] = 1]
            /\ pc' = [pc EXCEPT ![w] = "read"]
            /\ UNCHANGED returned
    /\ UNCHANGED <<observedRestarts, podLastTerminationInfo>>

\* The not-found branch deleting the entries of the pod.
ReconcilePodNotFound_Evicts(w, req) ==
    /\ pc[w] = "idle"
    /\ WithinBounds
    /\ ~IsSecretRequest(req)
    /\ observedRestarts' =
           [k \in DOMAIN observedRestarts \ KeysOfPod(req.namespace, req.name) |->
              observedRestarts[k]]
    /\ returned' = ResultOk
    /\ UNCHANGED <<podLastTerminationInfo, pc, pod, idx>>

\* Reconcile -> reconcilePod, r.Get returns not-found (lines 140-147):
\* "if the pod was deleted, ignore".
ReconcilePodNotFound(w, req) ==
    /\ pc[w] = "idle"
    /\ WithinBounds
    /\ ~IsSecretRequest(req)
    /\ returned' = ResultOk
    /\ UNCHANGED <<observedRestarts, podLastTerminationInfo, pc, pod, idx>>

\* Reconcile -> reconcilePod, r.Get fails with another error (lines 140-144).
ReconcilePodFetchError(w, req) ==
    /\ pc[w] = "idle"
    /\ WithinBounds
    /\ ~IsSecretRequest(req)
    /\ returned' = ResultErr
    /\ UNCHANGED <<observedRestarts, podLastTerminationInfo, pc, pod, idx>>

\* The store of line 177 moved out of the if.
CheckRestart_StoresAlways(w) ==
    /\ pc[w] = "read"
    /\ IF IsNewEvent(cs(w).restartCount, Lookup(observedRestarts, KeyOf(w)),
                     cs(w).terminated)
       THEN /\ pc' = [pc EXCEPT ![w] = "publish"]
            /\ UNCHANGED <<pod, idx, returned, observedRestarts>>
       ELSE /\ NextIteration(w)
            /\ observedRestarts' =
                   Store(observedRestarts, KeyOf(w), cs(w).restartCount)
    /\ UNCHANGED podLastTerminationInfo

\* Line 157: read observedRestarts[containerKey] and test the condition.
CheckRestart(w) ==
    /\ pc[w] = "read"
    /\ IF IsNewEvent(cs(w).restartCount, Lookup(observedRestarts, KeyOf(w)),
                     cs(w).terminated)
       THEN /\ pc' = [pc EXCEPT ![w] = "publish"]
            /\ UNCHANGED <<pod, idx, returned>>
       ELSE NextIteration(w)
    /\ UNCHANGED <<observedRestarts, podLastTerminationInfo>>

\* The publication replacing the earlier observations of the container.
PublishTermination_ReplacesContainer(w) ==
    /\ pc[w] = "publish"
    /\ podLastTerminationInfo' =
           Store([l \in { x \in DOMAIN podLastTerminationInfo :
                            ~(x.namespace = pod[w].namespace /\ x.pod = pod[w].name
                                /\ x.container = cs(w).name) } |->
                    podLastTerminationInfo[l]],
                 Labels(w), Deref(cs(w).terminated).finishedAt)
    /\ pc' = [pc EXCEPT ![w] = "write"]
    /\ UNCHANGED <<observedRestarts, pod, idx, returned>>

\* Lines 161-174: podLastTerminationInfo.With(labels).Set(finishedAt).
PublishTermination(w) ==
    /\ pc[w] = "publish"
    /\ podLastTerminationInfo' =
           Store(podLastTerminationInfo, Labels(w), Deref(cs(w).terminated).finishedAt)
    /\ pc' = [pc EXCEPT ![w] = "write"]
    /\ UNCHANGED <<observedRestarts, pod, idx, returned>>

\* Line 177: observedRestarts[containerKey] = cs.RestartCount.
StoreRestart(w) ==
    /\ pc[w] = "write"
    /\ observedRestarts' = Store(observedRestarts, KeyOf(w), cs(w).restartCount)
    /\ NextIteration(w)
    /\ UNCHANGED podLastTerminationInfo

\* Two goroutines are inside the unsynchronised map at once and one of them is
\* writing.
MapRace ==
    \E w1, w2 \in Workers :
        /\ w1 # w2
        /\ pc[w1] = "write"
        /\ pc[w2] \in {"read", "write"}

\* The Go runtime may detect the race ("fatal error: concurrent map writes",
\* "concurrent map read and map write") and kill the process; the operator
\* is started again with empty package-level state.
FatalError ==
    /\ MapRace
    /\ observedRestarts' = EmptyMap
    /\ podLastTerminationInfo' = EmptyMap
    /\ pc' = [w \in Workers |-> "idle"]
    /\ pod' = [w \in Workers |-> NoPod]
    /\ idx' = [w \in Workers |-> 0]
    /\ returned' = NoResult

\* A restart that finds the map as it was (state saved and restored).
OperatorRestart_KeepsTracker ==
    /\ WithinBounds
    /\ podLastTerminationInfo' = EmptyMap
    /\ pc' = [w \in Workers |-> "idle"]
    /\ pod' = [w \in Workers |-> NoPod]
    /\ idx' = [w \in Workers |-> 0]
    /\ returned' = NoResult
    /\ UNCHANGED observedRestarts

\* The operator process is restarted: "make(map[string]int32)" runs again
\* and the gauges, which live in the process, are empty.
OperatorRestart ==
    /\ WithinBounds
    /\ observedRestarts' = EmptyMap
    /\ podLastTerminationInfo' = EmptyMap
    /\ pc' = [w \in Workers |-> "idle"]
    /\ pod' = [w \in Workers |-> NoPod]
    /\ idx' = [w \in Workers |-> 0]
    /\ returned' = NoResult

\* ------------------------------------------------- the certificate path

\* A decoder that looks for the first block holding a certificate.
pemDecode_FirstCertificate(pemData) ==
    LET blocks == { i \in 1..Len(pemData) :
                      pemData[i].pem /\ pemData[i].der = "certificate" }
        any == { i \in 1..Len(pemData) : pemData[i].pem }
    IN IF any = {}
       THEN Nil
       ELSE IF blocks = {}
            THEN Ptr(pemData[CHOOSE i \in any : \A j \in any : i <= j])
            ELSE Ptr(pemData[CHOOSE i \in blocks : \A j \in blocks : i <= j])

\* pem.Decode: the first PEM block of the data, whatever precedes it; nil
\* when there is none.
pemDecode(pemData) ==
    LET blocks == { i \in 1..Len(pemData) : pemData[i].pem }
    IN IF blocks = {}
       THEN Nil
       ELSE Ptr(pemData[CHOOSE i \in blocks : \A j \in blocks : i <= j])

\* The parser with one error for both failures.
parseCertificateFromPEM_OneError(pemData) ==
    LET block == pemDecode(pemData)
    IN IF block = Nil \/ Deref(block).der # "certificate"
       THEN [cert |-> Nil, err |-> "failed to parse certificate"]
       ELSE [cert |-> Ptr([NotAfter |-> Deref(block).notAfter]), err |-> "nil"]

\* parseCertificateFromPEM (lines 223-236): pem.Decode takes the first block
\* of the data, x509.ParseCertificate parses its bytes.
parseCertificateFromPEM(pemData) ==
    LET block == pemDecode(pemData)
    IN IF block = Nil
       THEN [cert |-> Nil, err |-> "failed to parse PEM block"]
       ELSE IF Deref(block).der # "certificate"
            THEN [cert |-> Nil, err |-> "failed to parse certificate"]
            ELSE [cert |-> Ptr([NotAfter |-> Deref(block).notAfter]), err |-> "nil"]

\* The days clamped to zero for an expired certificate.
DaysUntil_Clamped(expirationTime, now) ==
    [num |-> IF expirationTime < now THEN 0 ELSE expirationTime - now,
     den |-> 24 * Hour]

\* expirationTime.Sub(now).Hours() / 24 (line 251): a signed fraction of
\* days, kept as numerator and denominator in seconds.
DaysUntil(expirationTime, now) ==
    [num |-> expirationTime - now, den |-> 24 * Hour]

\* The labels of lines 261-271.
CertLabels(namespace, secretName, certType) ==
    [namespace |-> namespace, secret_name |-> secretName, cert_type |-> certType]

\* GaugeVec.Delete with the same two labels: no observation has exactly these.
DeletePartialMatch_AsDelete(m, namespace, secretName) == m

\* GaugeVec.DeletePartialMatch(Labels{"namespace":..., "secret_name":...}).
DeletePartialMatch(m, namespace, secretName) ==
    [l \in { x \in DOMAIN m :
               ~(x.namespace = namespace /\ x.secret_name = secretName) } |-> m[l]]

\* Every key taken for a certificate.
IsRecognisedKey_AnyKey(key) == TRUE

\* The allow-list of line 212.
IsRecognisedKey(key) ==
    key = "ca.crt" \/ key = "issuer.crt" \/ key = "ca.pem" \/ key = "issuer.pem"
        \/ key = "crt.pem"

\* The fetch that first drops what was published for the secret.
ReconcileSecretFound_Resets(w, req, d) ==
    /\ pc[w] = "idle"
    /\ IsSecretRequest(req)
    /\ secret' = [secret EXCEPT ![w] =
                     [namespace |-> req.namespace, name |-> req.name, data |-> d]]
    /\ remaining' = [remaining EXCEPT ![w] = DOMAIN d]
    /\ pc' = [pc EXCEPT ![w] = "certloop"]
    /\ certificateExpirationTime' =
           DeletePartialMatch(certificateExpirationTime, req.namespace, req.name)
    /\ certificateDaysUntilExpiration' =
           DeletePartialMatch(certificateDaysUntilExpiration, req.namespace, req.name)
    /\ UNCHANGED <<observedRestarts, podLastTerminationInfo, pod, idx, returned>>

\* Reconcile -> reconcileSecret, r.Get succeeds and returns a secret with
\* Data d (lines 123-128, 189-208).
ReconcileSecretFound(w, req, d) ==
    /\ pc[w] = "idle"
    /\ IsSecretRequest(req)
    /\ secret' = [secret EXCEPT ![w] =
                     [namespace |-> req.namespace, name |-> req.name, data |-> d]]
    /\ remaining' = [remaining EXCEPT ![w] = DOMAIN d]
    /\ pc' = [pc EXCEPT ![w] = "certloop"]
    /\ UNCHANGED <<certificateExpirationTime, certificateDaysUntilExpiration>>
    /\ UNCHANGED <<observedRestarts, podLastTerminationInfo, pod, idx, returned>>

\* Reconcile -> reconcileSecret, r.Get returns not-found (lines 190-205).
ReconcileSecretNotFound(w, req) ==
    /\ pc[w] = "idle"
    /\ IsSecretRequest(req)
    /\ certificateExpirationTime' =
           DeletePartialMatch(certificateExpirationTime, req.namespace, req.name)
    /\ certificateDaysUntilExpiration' =
           DeletePartialMatch(certificateDaysUntilExpiration, req.namespace, req.name)
    /\ returned' = ResultOk
    /\ UNCHANGED <<secret, remaining>>
    /\ UNCHANGED <<observedRestarts, podLastTerminationInfo, pc, pod, idx>>

\* Every error of r.Get taken for not-found.
ReconcileSecretFetchError_Cleans(w, req) ==
    /\ pc[w] = "idle"
    /\ IsSecretRequest(req)
    /\ certificateExpirationTime' =
           DeletePartialMatch(certificateExpirationTime, req.namespace, req.name)
    /\ certificateDaysUntilExpiration' =
           DeletePartialMatch(certificateDaysUntilExpiration, req.namespace, req.name)
    /\ returned' = ResultOk
    /\ UNCHANGED <<secret, remaining>>
    /\ UNCHANGED <<observedRestarts, podLastTerminationInfo, pc, pod, idx>>

\* Reconcile -> reconcileSecret, r.Get fails with another error
\* (lines 190-194).
ReconcileSecretFetchError(w, req) ==
    /\ pc[w] = "idle"
    /\ IsSecretRequest(req)
    /\ returned' = ResultErr
    /\ UNCHANGED certificates
    /\ UNCHANGED <<observedRestarts, podLastTerminationInfo, pc, pod, idx>>

\* The iteration keeping the earlier expiry when it is the earlier one.
CheckCertificate_KeepsEarliest(w, key, now) ==
    /\ pc[w] = "certloop"
    /\ key \in remaining[w]
    /\ LET parsed == parseCertificateFromPEM(secret[w].data[key])
           labels == CertLabels(secret[w].namespace, secret[w].name, key)
           earlier == /\ labels \in DOMAIN certificateExpirationTime
                      /\ certificateExpirationTime[labels] < Deref(parsed.cert).NotAfter
       IN IF IsRecognisedKey(key) /\ parsed.err = "nil"
          THEN /\ certificateExpirationTime' =
                      IF earlier
                      THEN certificateExpirationTime
                      ELSE Store(certificateExpirationTime, labels,
                                 Deref(parsed.cert).NotAfter)
               /\ certificateDaysUntilExpiration' =
                      Store(certificateDaysUntilExpiration, labels,
                            DaysUntil(Deref(parsed.cert).NotAfter, now))
          ELSE UNCHANGED <<certificateExpirationTime, certificateDaysUntilExpiration>>
    /\ remaining' = [remaining EXCEPT ![w] = remaining[w] \ {key}]
    /\ UNCHANGED secret
    /\ UNCHANGED <<observedRestarts, podLastTerminationInfo, pc, pod, idx, returned>>

\* The iteration returning the error of checkCertificateExpiration.
CheckCertificate_ReturnsError(w, key, now) ==
    /\ pc[w] = "certloop"
    /\ key \in remaining[w]
    /\ LET parsed == parseCertificateFromPEM(secret[w].data[key])
           labels == CertLabels(secret[w].namespace, secret[w].name, key)
       IN IF IsRecognisedKey(key) /\ parsed.err # "nil"
          THEN /\ returned' = [err |-> parsed.err, requeueAfter |-> 0]
               /\ pc' = [pc EXCEPT ![w] = "idle"]
               /\ secret' = [secret EXCEPT ![w] = NoSecret]
               /\ remaining' = [remaining EXCEPT ![w] = {}]
               /\ UNCHANGED <<certificateExpirationTime, certificateDaysUntilExpiration>>
          ELSE /\ IF IsRecognisedKey(key)
                  THEN /\ certificateExpirationTime' =
                              Store(certificateExpirationTime, labels,
                                    Deref(parsed.cert).NotAfter)
                       /\ certificateDaysUntilExpiration' =
                              Store(certificateDaysUntilExpiration, labels,
                                    DaysUntil(Deref(parsed.cert).NotAfter, now))
                  ELSE UNCHANGED <<certificateExpirationTime,
                                   certificateDaysUntilExpiration>>
               /\ remaining' = [remaining EXCEPT ![w] = remaining[w] \ {key}]
               /\ UNCHANGED <<secret, pc, returned>>
    /\ UNCHANGED <<observedRestarts, podLastTerminationInfo, pod, idx>>

\* The iteration that sets the expiry gauge alone.
CheckCertificate_ExpiryOnly(w, key, now) ==
    /\ pc[w] = "certloop"
    /\ key \in remaining[w]
    /\ LET parsed == parseCertificateFromPEM(secret[w].data[key])
           labels == CertLabels(secret[w].namespace, secret[w].name, key)
       IN IF IsRecognisedKey(key) /\ parsed.err = "nil"
          THEN certificateExpirationTime' =
                   Store(certificateExpirationTime, labels,
                         Deref(parsed.cert).NotAfter)
          ELSE UNCHANGED certificateExpirationTime
    /\ UNCHANGED certificateDaysUntilExpiration
    /\ remaining' = [remaining EXCEPT ![w] = remaining[w] \ {key}]
    /\ UNCHANGED secret
    /\ UNCHANGED <<observedRestarts, podLastTerminationInfo, pc, pod, idx, returned>>

\* One iteration of "for key, data := range secret.Data" (lines 208-217,
\* 239-274): Go visits the keys of a map in any order.  The error of
\* checkCertificateExpiration is logged and dropped.
CheckCertificate(w, key, now) ==
    /\ pc[w] = "certloop"
    /\ key \in remaining[w]
    /\ LET parsed == parseCertificateFromPEM(secret[w].data[key])
           labels == CertLabels(secret[w].namespace, secret[w].name, key)
       IN IF IsRecognisedKey(key) /\ parsed.err = "nil"
          THEN /\ certificateExpirationTime' =
                      Store(certificateExpirationTime, labels,
                            Deref(parsed.cert).NotAfter)
               /\ certificateDaysUntilExpiration' =
                      Store(certificateDaysUntilExpiration, labels,
                            DaysUntil(Deref(parsed.cert).NotAfter, now))
          ELSE UNCHANGED <<certificateExpirationTime, certificateDaysUntilExpiration>>
    /\ remaining' = [remaining EXCEPT ![w] = remaining[w] \ {key}]
    /\ UNCHANGED secret
    /\ UNCHANGED <<observedRestarts, podLastTerminationInfo, pc, pod, idx, returned>>

\* The return without RequeueAfter.
ReturnSecret_NoRequeue(w) ==
    /\ pc[w] = "certloop"
    /\ remaining[w] = {}
    /\ returned' = ResultOk
    /\ pc' = [pc EXCEPT ![w] = "idle"]
    /\ secret' = [secret EXCEPT ![w] = NoSecret]
    /\ UNCHANGED <<certificateExpirationTime, certificateDaysUntilExpiration, remaining>>
    /\ UNCHANGED <<observedRestarts, podLastTerminationInfo, pod, idx>>

\* Line 220: return ctrl.Result{RequeueAfter: time.Hour}, nil.
ReturnSecret(w) ==
    /\ pc[w] = "certloop"
    /\ remaining[w] = {}
    /\ returned' = ResultRequeue
    /\ pc' = [pc EXCEPT ![w] = "idle"]
    /\ secret' = [secret EXCEPT ![w] = NoSecret]
    /\ UNCHANGED <<certificateExpirationTime, certificateDaysUntilExpiration, remaining>>
    /\ UNCHANGED <<observedRestarts, podLastTerminationInfo, pod, idx>>

\* ------------------------------------------- recording the history variables

\* The publications of the watched key.
RecordEvents(w) ==
    events' = IF pc[w] = "publish" /\ KeyOf(w) = watched
              THEN Append(events, cs(w).restartCount)
              ELSE events

\* The observations of the watched key, for sequential runs.
RecordObserved(w) ==
    IF pc[w] = "read" /\ KeyOf(w) = watched
    THEN /\ seen' = SeenNext(seen, cs(w).restartCount, cs(w).terminated # Nil)
         /\ script' = ScriptNext(script, cs(w).restartCount, cs(w).terminated # Nil)
         /\ removed' = FALSE
    ELSE UNCHANGED <<seen, script, removed>>

\* ignored: the counters of the watched key that were above the stored one
\* but came without a snapshot; an observation with a snapshot settles those
\* that are not above its counter.
IgnoredNext(S, counter, snapshot, stored) ==
    IF snapshot
    THEN { n \in S : n > counter }
    ELSE IF counter > stored THEN S \cup {counter} ELSE S

RecordIgnored(w) ==
    ignored' = IF pc[w] = "read" /\ KeyOf(w) = watched
               THEN IgnoredNext(ignored, cs(w).restartCount, cs(w).terminated # Nil,
                                Lookup(observedRestarts, KeyOf(w)))
               ELSE ignored

\* The other workers that are in the range loop over the pod of req.
Running(w, req) ==
    { v \in Workers \ {w} :
        pc[v] # "idle" /\ pod[v].namespace = req.namespace /\ pod[v].name = req.name }

\* ---------------------------------------------------------- specifications

\* Concurrent workers (MaxConcurrentReconciles > 1).  Recorded: events, and
\* overlapped: the workers that were in the range loop over a pod when
\* another worker was told that the pod is not found, until a worker starts
\* on that pod again.
sequentialHistory == <<watched, seen, script, removed, ignored, last>>

ConcReconcilePodFound(w, req, p) ==
    /\ ReconcilePodFound(w, req, p)
    /\ overlapped' = overlapped \ (Running(w, req) \cup {w})
    /\ UNCHANGED <<events, sequentialHistory, certificates>>
    /\ UNCHANGED surroundings

ConcReconcilePodNotFound(w, req) ==
    /\ ReconcilePodNotFound(w, req)
    /\ overlapped' = (overlapped \cup Running(w, req)) \ {w}
    /\ UNCHANGED <<events, sequentialHistory, certificates>>
    /\ UNCHANGED surroundings

ConcReconcilePodFetchError(w, req) ==
    /\ ReconcilePodFetchError(w, req)
    /\ UNCHANGED <<events, overlapped, sequentialHistory, certificates>>
    /\ UNCHANGED surroundings

ConcCheckRestart(w) ==
    /\ CheckRestart(w)
    /\ UNCHANGED <<events, overlapped, sequentialHistory, certificates>>
    /\ UNCHANGED surroundings

ConcPublishTermination(w) ==
    /\ PublishTermination(w)
    /\ RecordEvents(w)
    /\ UNCHANGED <<overlapped, sequentialHistory, certificates>>
    /\ UNCHANGED surroundings

ConcStoreRestart(w) ==
    /\ StoreRestart(w)
    /\ UNCHANGED <<events, overlapped, sequentialHistory, certificates>>
    /\ UNCHANGED surroundings

ConcFatalError ==
    /\ FatalError
    /\ overlapped' = {}
    /\ UNCHANGED <<events, sequentialHistory, certificates>>
    /\ UNCHANGED surroundings

Next ==
    \/ \E w \in Workers, req \in Requests :
          \E p \in PodObjects(req) : ConcReconcilePodFound(w, req, p)
    \/ \E w \in Workers, req \in Requests : ConcReconcilePodNotFound(w, req)
    \/ \E w \in Workers, req \in Requests : ConcReconcilePodFetchError(w, req)
    \/ \E w \in Workers : ConcCheckRestart(w)
    \/ \E w \in Workers : ConcPublishTermination(w)
    \/ \E w \in Workers : ConcStoreRestart(w)
    \/ ConcFatalError

Spec == Init /\ [][Next]_vars

\* One worker (the controller's default): reconciliations run one at a time.
\* Recorded: events, seen, script, and removed: the last Get of the watched
\* key's pod reported not found and the key was not observed since.
SeqWorker == "w1"

SeqReconcilePodFound(req, p) ==
    /\ ReconcilePodFound(SeqWorker, req, p)
    /\ UNCHANGED <<history, certificates>>
    /\ UNCHANGED surroundings

SeqReconcilePodNotFound(req) ==
    /\ ReconcilePodNotFound(SeqWorker, req)
    /\ removed' = (removed \/ watched \in KeysOfPod(req.namespace, req.name))
    /\ UNCHANGED <<watched, events, seen, script, overlapped, ignored, last>>
    /\ UNCHANGED certificates
    /\ UNCHANGED surroundings

SeqReconcilePodFetchError(req) ==
    /\ ReconcilePodFetchError(SeqWorker, req)
    /\ UNCHANGED <<history, certificates>>
    /\ UNCHANGED surroundings

SeqCheckRestart ==
    /\ CheckRestart(SeqWorker)
    /\ RecordObserved(SeqWorker)
    /\ RecordIgnored(SeqWorker)
    /\ UNCHANGED <<watched, events, overlapped, last, certificates>>
    /\ UNCHANGED surroundings

SeqPublishTermination ==
    /\ PublishTermination(SeqWorker)
    /\ RecordEvents(SeqWorker)
    /\ UNCHANGED <<watched, seen, script, removed, overlapped, ignored, last>>
    /\ UNCHANGED certificates
    /\ UNCHANGED surroundings

SeqStoreRestart ==
    /\ StoreRestart(SeqWorker)
    /\ UNCHANGED <<history, certificates>>
    /\ UNCHANGED surroundings

SeqNext ==
    \/ \E req \in Requests : \E p \in PodObjects(req) : SeqReconcilePodFound(req, p)
    \/ \E req \in Requests : SeqReconcilePodNotFound(req)
    \/ \E req \in Requests : SeqReconcilePodFetchError(req)
    \/ SeqCheckRestart
    \/ SeqPublishTermination
    \/ SeqStoreRestart

SeqSpec == Init /\ [][SeqNext]_vars

\* One worker and restarts of the process.  The history of the watched key
\* starts again with the process, except events, which keeps what was
\* published before.
RestartOperatorRestart ==
    /\ OperatorRestart
    /\ seen' = [regular |-> TRUE, counters |-> {}]
    /\ script' = 0
    /\ removed' = FALSE
    /\ ignored' = {}
    /\ certificateExpirationTime' = EmptyMap
    /\ certificateDaysUntilExpiration' = EmptyMap
    /\ secret' = [w \in Workers |-> NoSecret]
    /\ remaining' = [w \in Workers |-> {}]
    /\ UNCHANGED <<watched, events, overlapped, last>>
    /\ UNCHANGED surroundings

\* The requests for the pod of the watched key.
RestartRequests == { req \in Requests : watched \in KeysOfPod(req.namespace, req.name) }

RestartNext ==
    \/ \E req \in RestartRequests : \E p \in PodObjects(req) : SeqReconcilePodFound(req, p)
    \/ \E req \in RestartRequests : SeqReconcilePodNotFound(req)
    \/ \E req \in RestartRequests : SeqReconcilePodFetchError(req)
    \/ SeqCheckRestart
    \/ SeqPublishTermination
    \/ SeqStoreRestart
    \/ RestartOperatorRestart

\* The watched key is the container of the pod with one container.
RestartInit == Init /\ watched = containerKey(Namespace, "db", "app")

RestartSpec == RestartInit /\ [][RestartNext]_vars

\* One worker, and the requests of both paths: the issuer secret and the
\* requests next to it, which are pods.  Recorded: last.
CertInit == Init /\ watched = containerKey(Namespace, "db", "app")

Dispatched(req, route, cleaned) ==
    /\ last' = [req |-> req, route |-> route, cleaned |-> cleaned,
                again |-> 0, late |-> 0]
    /\ UNCHANGED <<watched, events, seen, script, removed, overlapped, ignored>>

\* The observations of the secret of req in gauge m.
ObservationsOf(m, req) ==
    { l \in DOMAIN m : l.namespace = req.namespace /\ l.secret_name = req.name }

CertReconcilePodFound(req, p) ==
    /\ ReconcilePodFound(SeqWorker, req, p)
    /\ Dispatched(req, "pod", 0)
    /\ UNCHANGED certificates
    /\ UNCHANGED surroundings

CertReconcilePodNotFound(req) ==
    /\ ReconcilePodNotFound(SeqWorker, req)
    /\ Dispatched(req, "pod", 0)
    /\ UNCHANGED certificates
    /\ UNCHANGED surroundings

CertReconcilePodFetchError(req) ==
    /\ ReconcilePodFetchError(SeqWorker, req)
    /\ Dispatched(req, "pod", 0)
    /\ UNCHANGED certificates
    /\ UNCHANGED surroundings

CertCheckRestart ==
    /\ CheckRestart(SeqWorker)
    /\ UNCHANGED <<history, certificates>>
    /\ UNCHANGED surroundings

CertPublishTermination ==
    /\ PublishTermination(SeqWorker)
    /\ UNCHANGED <<history, certificates>>
    /\ UNCHANGED surroundings

CertStoreRestart ==
    /\ StoreRestart(SeqWorker)
    /\ UNCHANGED <<history, certificates>>
    /\ UNCHANGED surroundings

CertReconcileSecretFound(req, d) ==
    /\ ReconcileSecretFound(SeqWorker, req, d)
    /\ Dispatched(req, "certificate", 0)
    /\ UNCHANGED surroundings

CertReconcileSecretNotFound(req) ==
    /\ ReconcileSecretNotFound(SeqWorker, req)
    /\ Dispatched(req, "certificate",
                  Cardinality(ObservationsOf(certificateExpirationTime, req)) +
                  Cardinality(ObservationsOf(certificateDaysUntilExpiration, req)))
    /\ UNCHANGED surroundings

CertReconcileSecretFetchError(req) ==
    /\ ReconcileSecretFetchError(SeqWorker, req)
    /\ Dispatched(req, "certificate", 0)
    /\ UNCHANGED surroundings

CertCheckCertificate(key, now) ==
    /\ CheckCertificate(SeqWorker, key, now)
    /\ UNCHANGED history
    /\ UNCHANGED surroundings

CertReturnSecret ==
    /\ ReturnSecret(SeqWorker)
    /\ UNCHANGED history
    /\ UNCHANGED surroundings

CertNext ==
    \/ \E req \in AllRequests : \E p \in PodObjects(req) : CertReconcilePodFound(req, p)
    \/ \E req \in AllRequests : CertReconcilePodNotFound(req)
    \/ \E req \in AllRequests : CertReconcilePodFetchError(req)
    \/ CertCheckRestart
    \/ CertPublishTermination
    \/ CertStoreRestart
    \/ \E req \in AllRequests, d \in Secrets : CertReconcileSecretFound(req, d)
    \/ \E req \in AllRequests : CertReconcileSecretNotFound(req)
    \/ \E req \in AllRequests : CertReconcileSecretFetchError(req)
    \/ \E key \in SecretKeys, now \in Times : CertCheckCertificate(key, now)
    \/ CertReturnSecret

CertSpec == CertInit /\ [][CertNext]_vars

\* The parser on its own, as the program under test/ runs it: bytes are read,
\* then decoded and parsed.
EvalRead(data) ==
    /\ payload' = data
    /\ evaluated' = NoEvaluation
    /\ UNCHANGED <<program, certificates, history, ctxDone, queueState>>

EvalParse ==
    /\ evaluated = NoEvaluation
    /\ evaluated' = parseCertificateFromPEM(payload)
    /\ UNCHANGED <<payload, program, certificates, history, ctxDone, queueState>>

EvalNext ==
    \/ \E data \in EvalPayloads : EvalRead(data)
    \/ EvalParse

EvalSpec == CertInit /\ [][EvalNext]_vars

\* The certificate path with what surrounds it: the issuer secret in the
\* cluster, the watch on it (SetupWithManager, lines 277-296), the work
\* queue and the RequeueAfter timer, and the deadline of ctx.  One worker.
\* Recorded in last: again, the keys whose two observations were set to the
\* values they already had; late, the keys whose observations were set after
\* the deadline of ctx had passed.

\* The secret is created or updated: CreateFunc and UpdateFunc let the
\* notification through and the request is queued.
WatchSecretWritten ==
    /\ exists' = TRUE
    /\ queued' = TRUE
    /\ UNCHANGED <<program, certificates, history, evaluator, ctxDone, timer>>

\* The secret is deleted: DeleteFunc returns false, nothing is queued.
WatchSecretDeleted ==
    /\ exists
    /\ exists' = FALSE
    /\ UNCHANGED <<program, certificates, history, evaluator, ctxDone, timer, queued>>

\* The RequeueAfter interval has passed: the request is queued.
WatchTimerFires ==
    /\ timer
    /\ timer' = FALSE
    /\ queued' = TRUE
    /\ UNCHANGED <<program, certificates, history, evaluator, ctxDone, exists>>

WatchReconcileSecretFound(d) ==
    /\ queued
    /\ exists
    /\ ReconcileSecretFound(SeqWorker, IssuerRequest, d)
    /\ Dispatched(IssuerRequest, "certificate", 0)
    /\ queued' = FALSE
    /\ UNCHANGED <<evaluator, ctxDone, exists, timer>>

\* ctrl.Result{}, nil: the request is forgotten, no timer is set.
WatchReconcileSecretNotFound ==
    /\ queued
    /\ ~exists
    /\ ReconcileSecretNotFound(SeqWorker, IssuerRequest)
    /\ Dispatched(IssuerRequest, "certificate",
                  Cardinality(ObservationsOf(certificateExpirationTime, IssuerRequest)) +
                  Cardinality(ObservationsOf(certificateDaysUntilExpiration, IssuerRequest)))
    /\ queued' = FALSE
    /\ UNCHANGED <<evaluator, ctxDone, exists, timer>>

\* ctrl.Result{}, err: the request is queued again (with backoff).
WatchReconcileSecretFetchError ==
    /\ queued
    /\ ReconcileSecretFetchError(SeqWorker, IssuerRequest)
    /\ Dispatched(IssuerRequest, "certificate", 0)
    /\ UNCHANGED surroundings

\* The iteration that stops evaluating once the deadline has passed.
WatchCheckCertificate_HonoursDeadline(key, now) ==
    /\ pc[SeqWorker] = "certloop"
    /\ key \in remaining[SeqWorker]
    /\ IF ctxDone
       THEN /\ remaining' = [remaining EXCEPT ![SeqWorker] = remaining[SeqWorker] \ {key}]
            /\ UNCHANGED <<program, certificateExpirationTime,
                           certificateDaysUntilExpiration, secret, last>>
       ELSE /\ CheckCertificate(SeqWorker, key, now)
            /\ UNCHANGED last
    /\ UNCHANGED <<watched, events, seen, script, removed, overlapped, ignored>>
    /\ UNCHANGED surroundings

WatchCheckCertificate(key, now) ==
    /\ CheckCertificate(SeqWorker, key, now)
    /\ LET published ==
               /\ IsRecognisedKey(key)
               /\ parseCertificateFromPEM(secret[SeqWorker].data[key]).err = "nil"
           same == /\ certificateExpirationTime' = certificateExpirationTime
                   /\ certificateDaysUntilExpiration' = certificateDaysUntilExpiration
       IN last' = [last EXCEPT
                     !.again = IF published /\ same THEN @ + 1 ELSE @,
                     !.late = IF published /\ ctxDone THEN @ + 1 ELSE @]
    /\ UNCHANGED <<watched, events, seen, script, removed, overlapped, ignored>>
    /\ UNCHANGED surroundings

\* The deadline of the ctx of the reconciliation in the loop passes.  Nothing
\* in reconcileSecret's loop reads ctx.Done() or ctx.Err().
WatchDeadlineExceeded ==
    /\ pc[SeqWorker] = "certloop"
    /\ ~ctxDone
    /\ ctxDone' = TRUE
    /\ UNCHANGED <<program, certificates, history, evaluator, queueState>>

\* The return that schedules no later reconciliation.
WatchReturnSecret_NoTimer ==
    /\ ReturnSecret(SeqWorker)
    /\ ctxDone' = FALSE
    /\ UNCHANGED <<history, evaluator, exists, timer, queued>>

\* ctrl.Result{RequeueAfter: time.Hour}, nil: the timer is set.
WatchReturnSecret ==
    /\ ReturnSecret(SeqWorker)
    /\ ctxDone' = FALSE
    /\ timer' = TRUE
    /\ UNCHANGED <<history, evaluator, exists, queued>>

WatchNext ==
    \/ WatchSecretWritten
    \/ WatchSecretDeleted
    \/ WatchTimerFires
    \/ \E d \in CertificateSecrets : WatchReconcileSecretFound(d)
    \/ WatchReconcileSecretNotFound
    \/ WatchReconcileSecretFetchError
    \/ \E key \in SecretKeys, now \in Times : WatchCheckCertificate(key, now)
    \/ WatchDeadlineExceeded
    \/ WatchReturnSecret

WatchSpec == CertInit /\ [][WatchNext]_vars

\* The timer fires and the worker takes queued requests and runs to its
\* return.
WatchFairSpec ==
    /\ WatchSpec
    /\ WF_vars(WatchTimerFires)
    /\ WF_vars(WatchReconcileSecretNotFound)
    /\ WF_vars(\E key \in SecretKeys, now \in Times : WatchCheckCertificate(key, now))
    /\ WF_vars(WatchReturnSecret)

\* ------------------------------------------------------------------ claims

\* The counter stored for key k in map m, zero when k is absent.
StoredIn(m, k) == IF k \in DOMAIN m THEN m[k] ELSE 0

\* Worker w has decided that its container status is a new event and has not
\* yet stored the counter.
Reporting(w) == pc[w] \in {"publish", "write"}

\* C1: every container status that reaches line 157 is reported as a new
\* event (the worker goes on to publish) if and only if its restart counter
\* is greater than the counter stored for its key at that moment (zero when
\* the key is absent) and it carries a last-termination snapshot.
C1_NewEventIff ==
    [][\A w \in Workers :
         CheckRestart(w) =>
            ( (pc'[w] = "publish") <=>
              ( /\ cs(w).restartCount > StoredIn(observedRestarts, KeyOf(w))
                /\ cs(w).terminated # Nil ) )]_vars

\* C1 witness: a status was reported as new against a stored, lower counter,
\* while an earlier check of the same run was not reported.
C1_Witness ==
    \E w \in Workers :
        /\ pc[w] = "publish"
        /\ KeyOf(w) \in DOMAIN observedRestarts
        /\ observedRestarts[KeyOf(w)] >= 1
        /\ idx[w] = 2

\* C2: while the observations of a key are regular (non-decreasing counters,
\* a snapshot each time), the number of new events published for it equals
\* the number of distinct counters above zero observed, in every state that
\* the sequential runs reach, however the reconciliations of other pods and
\* the checks of other containers are interleaved with them.
C2_EventsMatchCounters ==
    (seen.regular /\ ~\E w \in Workers : pc[w] = "publish" /\ KeyOf(w) = watched)
        => Len(events) = Cardinality(seen.counters)

\* C2 witness: two distinct counters were observed and two events published
\* for the watched key, with another key tracked in between.
C2_Witness ==
    /\ seen.regular
    /\ Cardinality(seen.counters) = 2
    /\ Len(events) = 2
    /\ pc[SeqWorker] = "idle"
    /\ \E k \in DOMAIN observedRestarts : k # watched

\* C3: an observation that was already published is never published again:
\* no counter occurs twice among the publications of a key.
C3_NoRepeatedEvent ==
    \A i, j \in 1..Len(events) : i # j => events[i] # events[j]

\* C4: no write to the map lowers the counter stored for a key.
C4_StoredNeverDecreases ==
    [][\A w \in Workers :
         StoreRestart(w) =>
            \A k \in Keys :
                StoredIn(observedRestarts', k) >= StoredIn(observedRestarts, k)]_vars

\* C5: two workers never both report the same counter of the same key as a
\* new event.
C5_AtMostOneReports ==
    \A w1, w2 \in Workers :
        (w1 # w2 /\ Reporting(w1) /\ Reporting(w2) /\ KeyOf(w1) = KeyOf(w2))
            => cs(w1).restartCount # cs(w2).restartCount

\* C6: no worker is writing the map while another worker is reading or
\* writing it.
C6_ExclusiveAccess ==
    \A w1, w2 \in Workers :
        (w1 # w2 /\ pc[w1] = "write") => pc[w2] \notin {"read", "write"}

\* C7: when r.Get reports the pod as not found, the map holds no entry of
\* that pod afterwards, whatever the container name.
C7_EvictOnNotFound ==
    [][\A w \in Workers, req \in Requests :
         ReconcilePodNotFound(w, req) =>
            DOMAIN observedRestarts' \cap KeysOfPod(req.namespace, req.name) = {}]_vars

\* C8: after the pod of a key was reported not found, the next observation of
\* the key with a counter >= 1 and a snapshot is reported as a new event.
C8_FreshAfterRemoval ==
    [][\A w \in Workers :
         ( /\ CheckRestart(w)
           /\ KeyOf(w) = watched
           /\ removed
           /\ cs(w).restartCount >= 1
           /\ cs(w).terminated # Nil )
            => pc'[w] = "publish"]_vars

\* What observing pod object p leaves in an empty map.
FreshObserve(p) ==
    LET new == { i \in 1..Len(p.statuses) :
                   p.statuses[i].restartCount >= 1 /\ p.statuses[i].terminated # Nil }
        key(i) == containerKey(p.namespace, p.name, p.statuses[i].name)
    IN [k \in { key(i) : i \in new } |->
          (CHOOSE i \in new : key(i) = k) ]

\* C9: when a worker finishes the range loop over a pod that was reported
\* not found to another worker meanwhile, the entries of the pod are those of
\* one of the two sequential orders: none (observe, then evict) or those of
\* observing into an empty map (evict, then observe).
C9_EvictObserveSerialised ==
    [][\A w \in Workers :
         ( /\ w \in overlapped
           /\ pc[w] # "idle"
           /\ pc'[w] = "idle"
           /\ returned' = ResultOk )
            => LET P == KeysOfPod(pod[w].namespace, pod[w].name) \cap
                        DOMAIN observedRestarts'
                   fresh == FreshObserve(pod[w])
               IN \/ P = {}
                  \/ /\ P = DOMAIN fresh
                     /\ \A k \in P :
                          observedRestarts'[k] =
                              pod[w].statuses[fresh[k]].restartCount]_vars

\* C10: after exactly the observations of Scenario for a fresh key, two
\* termination metrics were published for it, for counter 1 and for counter 3.
C10_ScenarioTwoEvents ==
    (script = Len(Scenario) /\ ~\E w \in Workers : pc[w] = "publish" /\ KeyOf(w) = watched)
        => events = <<1, 3>>

\* C10 witness: the scenario was observed to its end and the reconciliation
\* returned.
C10_Witness ==
    /\ script = Len(Scenario)
    /\ pc[SeqWorker] = "idle"
    /\ events = <<1, 3>>
    /\ StoredIn(observedRestarts, watched) = 3

\* The names of the allow-list, and the issuer secret's labels for a key.
AllowList == {"ca.crt", "issuer.crt", "ca.pem", "issuer.pem", "crt.pem"}

IssuerLabels(key) ==
    [namespace |-> "linkerd", secret_name |-> "linkerd-identity-issuer",
     cert_type |-> key]

\* The bytes hold a certificate in their first PEM block.
WellFormed(data) == Len(data) > 0 /\ data[1].der = "certificate"

\* C11: a container status whose counter is above the stored one but that
\* carries no snapshot is passed over: nothing is published for it and the
\* map is left as it is; and when such a counter of a key was passed over,
\* the first later status of the key that carries a snapshot and that counter
\* or a higher one is reported as a new event (sequential runs).
C11_IgnoredUntilSnapshot ==
    [][\A w \in Workers :
         CheckRestart(w) =>
            /\ ( /\ cs(w).terminated = Nil
                 /\ cs(w).restartCount > StoredIn(observedRestarts, KeyOf(w)) )
                  => /\ pc'[w] \in {"read", "idle"}
                     /\ observedRestarts' = observedRestarts
                     /\ podLastTerminationInfo' = podLastTerminationInfo
            /\ ( /\ KeyOf(w) = watched
                 /\ cs(w).terminated # Nil
                 /\ \E n \in ignored : n <= cs(w).restartCount )
                  => pc'[w] = "publish"]_vars

\* C11 witness: counter 2 was passed over twice for lack of a snapshot while
\* 1 was stored, and counter 3 with a snapshot is now being published.
C11_Witness ==
    /\ script = Len(Scenario)
    /\ pc[SeqWorker] = "publish"
    /\ KeyOf(SeqWorker) = watched
    /\ cs(SeqWorker).restartCount = 3
    /\ StoredIn(observedRestarts, watched) = 1
    /\ ignored = {}

\* C12: the first status of a newly observed pod's container (never observed
\* before, or not since its pod was reported not found) that has a counter
\* >= 1 and a snapshot is reported as a new event.
C12_FirstRestartReported ==
    [][\A w \in Workers :
         ( /\ CheckRestart(w)
           /\ KeyOf(w) = watched
           /\ (script = 0 \/ removed)
           /\ cs(w).restartCount >= 1
           /\ cs(w).terminated # Nil )
            => pc' = [pc EXCEPT ![w] = "publish"]]_vars

\* C13: the termination gauge changes in the publish step of a new event and
\* in no other step; that step sets, once, the observation whose labels are
\* the pod's namespace and name, the container's name, the snapshot's reason
\* and its exit code in decimal, to the snapshot's finish time; a status that
\* is not a new event publishes nothing.
C13_PublishedIffNewEvent ==
    [][/\ \A w \in Workers :
            PublishTermination(w) =>
               LET t == cs(w).terminated[1]
                   l == [namespace |-> pod[w].namespace,
                         pod |-> pod[w].name,
                         container |-> cs(w).name,
                         reason |-> t.reason,
                         exit_code |-> ToString(t.exitCode)]
               IN /\ cs(w).restartCount > StoredIn(observedRestarts, KeyOf(w))
                  /\ DOMAIN podLastTerminationInfo' =
                         DOMAIN podLastTerminationInfo \cup {l}
                  /\ podLastTerminationInfo'[l] = t.finishedAt
                  /\ \A x \in DOMAIN podLastTerminationInfo \ {l} :
                         podLastTerminationInfo'[x] = podLastTerminationInfo[x]
                  /\ pc'[w] = "write"
       /\ \A w \in Workers :
            ( /\ CheckRestart(w)
              /\ ~( /\ cs(w).restartCount > StoredIn(observedRestarts, KeyOf(w))
                    /\ cs(w).terminated # Nil ) )
               => /\ pc'[w] \in {"read", "idle"}
                  /\ podLastTerminationInfo' = podLastTerminationInfo
       /\ (podLastTerminationInfo' # podLastTerminationInfo)
             => \E w \in Workers : pc[w] = "publish" /\ pc'[w] = "write"]_vars

\* C13 witness: two restarts of the watched container were published with
\* different reasons and exit codes, each with its own finish time.
C13_Witness ==
    /\ events = <<1, 2>>
    /\ pc[SeqWorker] = "write"
    /\ KeyOf(SeqWorker) = watched
    /\ \E l1, l2 \in DOMAIN podLastTerminationInfo :
          /\ l1.container = cs(SeqWorker).name /\ l2.container = l1.container
          /\ l1.pod = pod[SeqWorker].name /\ l2.pod = l1.pod
          /\ l1.exit_code = "1" /\ podLastTerminationInfo[l1] = 100
          /\ l2.exit_code = "137" /\ podLastTerminationInfo[l2] = 200

\* C14: the request dispatched last took the certificate path if and only if
\* it names linkerd/linkerd-identity-issuer, and the pod path otherwise.
C14_RouteIffIssuer ==
    last.route # "none" =>
        /\ last.route \in {"certificate", "pod"}
        /\ (last.route = "certificate") <=>
              (last.req.namespace = "linkerd" /\ last.req.name = "linkerd-identity-issuer")

\* C14 witness: after the certificate path has published, a request with the
\* issuer's name in another namespace took the pod path.
C14_Witness ==
    /\ last.route = "pod"
    /\ last.req = [namespace |-> "default", name |-> "linkerd-identity-issuer"]
    /\ DOMAIN certificateExpirationTime # {}

C16_FetchErrorPropagates ==
    [][\A req \in AllRequests :
         (CertReconcilePodFetchError(req) \/ CertReconcileSecretFetchError(req)) =>
            /\ returned'.err = "fetch"
            /\ observedRestarts' = observedRestarts
            /\ podLastTerminationInfo' = podLastTerminationInfo
            /\ certificateExpirationTime' = certificateExpirationTime
            /\ certificateDaysUntilExpiration' = certificateDaysUntilExpiration]_vars

\* C16 witness: the fetch of the secret failed while certificate
\* observations and a tracked counter existed; they are still there.
C16_Witness ==
    /\ returned = ResultErr
    /\ last.route = "certificate"
    /\ DOMAIN certificateExpirationTime # {}
    /\ DOMAIN certificateDaysUntilExpiration # {}
    /\ DOMAIN observedRestarts # {}

\* C17: when the secret is not found, no observation with its namespace and
\* secret_name is left in either certificate gauge, whatever the cert_type,
\* and no error is returned.
C17_SecretNotFoundDeletesBoth ==
    [][\A req \in AllRequests :
         CertReconcileSecretNotFound(req) =>
            /\ \A l \in DOMAIN certificateExpirationTime' \cup
                        DOMAIN certificateDaysUntilExpiration' :
                  ~(l.namespace = req.namespace /\ l.secret_name = req.name)
            /\ returned'.err = "nil"]_vars

\* C17 witness: the not-found branch deleted the observations of two
\* cert_types from both gauges.
C17_Witness ==
    /\ last.route = "certificate"
    /\ last.cleaned = 4
    /\ certificateExpirationTime = EmptyMap
    /\ certificateDaysUntilExpiration = EmptyMap
    /\ returned = ResultOk

\* C18 (as stated): every way the certificate reconciliation returns - secret
\* found, not found, fetch error - asks for a requeue after one hour.
C18_AlwaysRequeues ==
    [][\A req \in AllRequests :
         (CertReturnSecret \/ CertReconcileSecretNotFound(req)
             \/ CertReconcileSecretFetchError(req))
            => returned'.requeueAfter = Hour]_vars

\* C18 (amended): a certificate reconciliation that found the secret asks
\* for a requeue after one hour, whether or not its keys could be parsed;
\* one that did not find it returns no error and no requeue; one whose fetch
\* failed returns the error and no requeue interval.
C18_RequeuesWhenFound ==
    [][\A req \in AllRequests :
         /\ CertReturnSecret => returned' = [err |-> "nil", requeueAfter |-> Hour]
         /\ CertReconcileSecretNotFound(req) =>
               returned' = [err |-> "nil", requeueAfter |-> 0]
         /\ CertReconcileSecretFetchError(req) =>
               returned' = [err |-> "fetch", requeueAfter |-> 0]]_vars

\* C18 witness: a reconciliation of a secret found, which left nothing
\* published, returned with the requeue after one hour.
C18_Witness ==
    /\ returned = ResultRequeue
    /\ last.route = "certificate"
    /\ pc[SeqWorker] = "idle"
    /\ certificateExpirationTime = EmptyMap

\* C19: in each iteration over a key of the secret, in whatever order: a
\* recognised key with a well-formed certificate gets both observations, with
\* its NotAfter and the days until it; a recognised key that does not parse
\* changes nothing; the observations of the other keys stay as they are; the
\* loop goes on to the next key; and the reconciliation returns without error.
C19_FailureLocalToKey ==
    [][/\ \A w \in {SeqWorker}, key \in SecretKeys, now \in Times :
            CertCheckCertificate(key, now) =>
               LET data == secret[w].data[key]
                   l == IssuerLabels(key)
               IN /\ (key \in AllowList /\ WellFormed(data)) =>
                        /\ l \in DOMAIN certificateExpirationTime'
                        /\ certificateExpirationTime'[l] = data[1].notAfter
                        /\ l \in DOMAIN certificateDaysUntilExpiration'
                        /\ certificateDaysUntilExpiration'[l] =
                              [num |-> data[1].notAfter - now, den |-> 24 * Hour]
                  /\ (key \in AllowList /\ ~WellFormed(data)) =>
                        /\ certificateExpirationTime' = certificateExpirationTime
                        /\ certificateDaysUntilExpiration' =
                              certificateDaysUntilExpiration
                  /\ \A x \in DOMAIN certificateExpirationTime \ {l} :
                        /\ x \in DOMAIN certificateExpirationTime'
                        /\ certificateExpirationTime'[x] = certificateExpirationTime[x]
                  /\ \A x \in DOMAIN certificateDaysUntilExpiration \ {l} :
                        /\ x \in DOMAIN certificateDaysUntilExpiration'
                        /\ certificateDaysUntilExpiration'[x] =
                              certificateDaysUntilExpiration[x]
                  /\ pc'[w] = "certloop"
                  /\ remaining'[w] = remaining[w] \ {key}
                  /\ returned' = returned
       /\ \A w \in Workers :
            (pc[w] = "certloop" /\ pc'[w] = "idle") =>
               /\ remaining[w] = {}
               /\ returned'.err = "nil"]_vars

\* C19 witness: the loop has visited both keys of a secret whose ca.crt is
\* well-formed and whose crt.pem has no PEM block; ca.crt has the observations
\* of this certificate, crt.pem still has those of an earlier one.
C19_Witness ==
    /\ pc[SeqWorker] = "certloop"
    /\ remaining[SeqWorker] = {}
    /\ DOMAIN secret[SeqWorker].data = {"ca.crt", "crt.pem"}
    /\ WellFormed(secret[SeqWorker].data["ca.crt"])
    /\ secret[SeqWorker].data["crt.pem"] = <<>>
    /\ IssuerLabels("ca.crt") \in DOMAIN certificateExpirationTime
    /\ certificateExpirationTime[IssuerLabels("ca.crt")] =
          secret[SeqWorker].data["ca.crt"][1].notAfter
    /\ IssuerLabels("crt.pem") \in DOMAIN certificateExpirationTime
    /\ IssuerLabels("crt.pem") \in DOMAIN certificateDaysUntilExpiration

\* C20: every certificate observation has a cert_type of the allow-list, and
\* the iteration over a key outside the allow-list changes no observation.
C20_OnlyAllowListed ==
    [][/\ \A l \in DOMAIN certificateExpirationTime' \cup
                   DOMAIN certificateDaysUntilExpiration' :
            l.cert_type \in AllowList
       /\ \A key \in SecretKeys \ AllowList, now \in Times :
            CertCheckCertificate(key, now) =>
               /\ certificateExpirationTime' = certificateExpirationTime
               /\ certificateDaysUntilExpiration' = certificateDaysUntilExpiration]_vars

\* C20 witness: the loop has visited tls.key, which holds a well-formed
\* certificate, and a recognised key; only the latter has observations.
C20_Witness ==
    /\ pc[SeqWorker] = "certloop"
    /\ "tls.key" \in DOMAIN secret[SeqWorker].data
    /\ WellFormed(secret[SeqWorker].data["tls.key"])
    /\ remaining[SeqWorker] = {}
    /\ DOMAIN certificateExpirationTime = {IssuerLabels("ca.crt")}
    /\ DOMAIN certificateDaysUntilExpiration = {IssuerLabels("ca.crt")}

\* No certificate observation of the issuer secret is left.
IssuerCleared ==
    /\ ObservationsOf(certificateExpirationTime, IssuerRequest) = {}
    /\ ObservationsOf(certificateDaysUntilExpiration, IssuerRequest) = {}

\* C21: every key evaluated successfully gets the expiry observation with
\* its NotAfter in Unix seconds and the days observation with
\* (NotAfter - now) / 86400 s as a signed quantity, below zero when NotAfter
\* is before now; and every days observation in the gauge is such a value of
\* the expiry observation with the same labels.
C21_SignedDaysRemaining ==
    [][/\ \A key \in SecretKeys \cap AllowList, now \in Times :
            ( /\ CertCheckCertificate(key, now)
              /\ WellFormed(secret[SeqWorker].data[key]) ) =>
               LET expiresAt == secret[SeqWorker].data[key][1].notAfter
                   l == IssuerLabels(key)
               IN /\ certificateExpirationTime'[l] = expiresAt
                  /\ certificateDaysUntilExpiration'[l].num = expiresAt - now
                  /\ certificateDaysUntilExpiration'[l].den = 86400
                  /\ (expiresAt < now) =>
                        certificateDaysUntilExpiration'[l].num < 0
       /\ \A l \in DOMAIN certificateDaysUntilExpiration' :
            /\ l \in DOMAIN certificateExpirationTime'
            /\ \E now \in Times :
                  certificateDaysUntilExpiration'[l].num =
                      certificateExpirationTime'[l] - now]_vars

\* C21 witness: a certificate that expired a day and a half ago is published
\* with minus 129600 seconds of 86400.
C21_Witness ==
    \E l \in DOMAIN certificateDaysUntilExpiration :
        /\ certificateDaysUntilExpiration[l] = [num |-> 0 - 129600, den |-> 86400]
        /\ certificateExpirationTime[l] = 964 * 3600

\* The first PEM block of the bytes, as an index; zero when there is none.
FirstBlock(data) ==
    IF \E i \in 1..Len(data) : data[i].pem
    THEN CHOOSE i \in 1..Len(data) :
            data[i].pem /\ \A j \in 1..(i - 1) : ~data[j].pem
    ELSE 0

\* C22: for bytes without a PEM block the parser returns the error "failed
\* to parse PEM block", for bytes whose first PEM block is not a certificate
\* the error "failed to parse certificate", in both cases no certificate; and
\* the two errors differ.
C22_MalformedInputErrors ==
    evaluated # NoEvaluation =>
        /\ FirstBlock(payload) = 0 =>
              (evaluated.err = "failed to parse PEM block" /\ evaluated.cert = Nil)
        /\ (FirstBlock(payload) # 0 /\ payload[FirstBlock(payload)].der # "certificate") =>
              (evaluated.err = "failed to parse certificate" /\ evaluated.cert = Nil)
        /\ (evaluated.err = "failed to parse PEM block") <=> (FirstBlock(payload) = 0)

\* C22 witness: bytes that start with something that is no PEM block and go
\* on with a block that is no certificate gave the certificate error.
C22_Witness ==
    /\ Len(payload) = 2
    /\ payload[1] = NonPEM
    /\ payload[2] = JunkBlock
    /\ evaluated.err = "failed to parse certificate"

\* C23: the result is that of the first PEM block: when it is a certificate
\* the parser returns its NotAfter whatever follows; when it is not, the
\* parser fails, also when a later block is a certificate.
C23_FirstBlockOnly ==
    (evaluated # NoEvaluation /\ FirstBlock(payload) # 0) =>
        LET first == payload[FirstBlock(payload)]
        IN IF first.der = "certificate"
           THEN /\ evaluated.err = "nil"
                /\ evaluated.cert # Nil
                /\ evaluated.cert[1].NotAfter = first.notAfter
           ELSE evaluated.err # "nil" /\ evaluated.cert = Nil

\* C23 witness: a block that is no certificate, followed by a certificate:
\* the parser failed.
C23_Witness ==
    /\ Len(payload) = 2
    /\ payload[1] = JunkBlock
    /\ payload[2].der = "certificate"
    /\ evaluated.err = "failed to parse certificate"

\* C24: what an iteration writes for a key depends on the key's bytes and on
\* now only, whatever the gauges held; an iteration that finds the gauges
\* holding these very values leaves both gauges as they are; and the result
\* of the reconciliation is the same after any earlier one.
C24_IdempotentStateless ==
    [][/\ \A key \in SecretKeys \cap AllowList, now \in Times :
            ( /\ WatchCheckCertificate(key, now)
              /\ WellFormed(secret[SeqWorker].data[key]) ) =>
               LET expiresAt == secret[SeqWorker].data[key][1].notAfter
                   days == [num |-> expiresAt - now, den |-> 24 * Hour]
                   l == IssuerLabels(key)
                   held(m, v) == l \in DOMAIN m /\ m[l] = v
               IN /\ held(certificateExpirationTime', expiresAt)
                  /\ held(certificateDaysUntilExpiration', days)
                  /\ ( /\ held(certificateExpirationTime, expiresAt)
                       /\ held(certificateDaysUntilExpiration, days) )
                        => /\ certificateExpirationTime' = certificateExpirationTime
                           /\ certificateDaysUntilExpiration' =
                                 certificateDaysUntilExpiration
       /\ WatchReturnSecret => returned' = ResultRequeue]_vars

\* C24 witness: a reconciliation has visited two keys and set, for both, the
\* values that an earlier reconciliation had left.
C24_Witness ==
    /\ pc[SeqWorker] = "certloop"
    /\ remaining[SeqWorker] = {}
    /\ last.again = 2
    /\ last.late = 0

\* C25 (as stated): once the deadline of ctx has passed, the loop publishes
\* for no further key, and the map is not changed.
C25_DeadlineStopsEvaluation ==
    [][\A key \in SecretKeys, now \in Times :
         (WatchCheckCertificate(key, now) /\ ctxDone) =>
            /\ certificateExpirationTime' = certificateExpirationTime
            /\ certificateDaysUntilExpiration' = certificateDaysUntilExpiration
            /\ observedRestarts' = observedRestarts]_vars

\* C25 (amended): the loop does not consult the deadline: after it has passed
\* every remaining key is still visited, a recognised well-formed one is
\* published, and the reconciliation returns as usual; the map is not changed.
C25_DeadlineNotConsulted ==
    [][/\ \A key \in SecretKeys, now \in Times :
            (WatchCheckCertificate(key, now) /\ ctxDone) =>
               /\ (key \in AllowList /\ WellFormed(secret[SeqWorker].data[key])) =>
                     /\ IssuerLabels(key) \in DOMAIN certificateExpirationTime'
                     /\ certificateExpirationTime'[IssuerLabels(key)] =
                           secret[SeqWorker].data[key][1].notAfter
                     /\ IssuerLabels(key) \in DOMAIN certificateDaysUntilExpiration'
               /\ observedRestarts' = observedRestarts
               /\ podLastTerminationInfo' = podLastTerminationInfo
       /\ (WatchReturnSecret /\ ctxDone) =>
             (remaining[SeqWorker] = {} /\ returned' = ResultRequeue)]_vars

\* C25 witness: a key was published after the deadline had passed.
C25_Witness ==
    /\ ctxDone
    /\ last.late >= 1
    /\ last.again = 0
    /\ remaining[SeqWorker] = {}
    /\ ~IssuerCleared

\* C26: the map changes only in the store of a status, and then at the key
\* of that status only; and a step on another key leaves the entry of the
\* watched key and the events published for it as they are.
C26_OtherIdentitiesUntouched ==
    [][/\ (observedRestarts' # observedRestarts) => pc[SeqWorker] = "write"
       /\ pc[SeqWorker] # "idle" =>
             /\ \A k \in (DOMAIN observedRestarts \cup DOMAIN observedRestarts')
                            \ {KeyOf(SeqWorker)} :
                   /\ k \in DOMAIN observedRestarts
                   /\ k \in DOMAIN observedRestarts'
                   /\ observedRestarts'[k] = observedRestarts[k]
             /\ KeyOf(SeqWorker) # watched =>
                   /\ StoredIn(observedRestarts', watched) =
                         StoredIn(observedRestarts, watched)
                   /\ events' = events]_vars

\* C26 witness: two containers of one pod are tracked; the watched one went
\* from 1 to 2 and the other one still holds 1.
C26_Witness ==
    /\ pc[SeqWorker] = "idle"
    /\ events = <<1, 2>>
    /\ \E k \in KeysOfPod(Namespace, "web") :
          /\ k # watched
          /\ watched \in KeysOfPod(Namespace, "web")
          /\ k \in DOMAIN observedRestarts
          /\ observedRestarts[k] = 1
          /\ StoredIn(observedRestarts, watched) = 2

\* C27: the restart of the process empties the map, and the first status of
\* a key after it that has a counter >= 1 and a snapshot is reported as a new
\* event, also when that restart of the container was published before.
C27_ReportedAgainAfterRestart ==
    [][/\ RestartOperatorRestart => observedRestarts' = EmptyMap
       /\ ( /\ SeqCheckRestart
            /\ KeyOf(SeqWorker) = watched
            /\ script = 0
            /\ cs(SeqWorker).restartCount >= 1
            /\ cs(SeqWorker).terminated # Nil )
             => pc'[SeqWorker] = "publish"]_vars

\* C27 witness: counter 1 of the watched key was published, the process was
\* restarted, and counter 1 was published again and is stored.
C27_Witness ==
    /\ events = <<1, 1>>
    /\ script = 1
    /\ pc[SeqWorker] = "idle"
    /\ StoredIn(observedRestarts, watched) = 1

C31_FamiliesAgreeOnLabels ==
    (pc[SeqWorker] = "idle" /\ last.route = "certificate") =>
        /\ DOMAIN certificateExpirationTime = DOMAIN certificateDaysUntilExpiration
        /\ \A l \in DOMAIN certificateExpirationTime :
              DOMAIN l = {"namespace", "secret_name", "cert_type"}

\* C31 witness: a reconciliation of a secret with two certificates has
\* returned; each gauge holds the two label sets.
C31_Witness ==
    /\ pc[SeqWorker] = "idle"
    /\ last.route = "certificate"
    /\ returned = ResultRequeue
    /\ DOMAIN certificateExpirationTime = {IssuerLabels("ca.crt"), IssuerLabels("crt.pem")}
    /\ DOMAIN certificateDaysUntilExpiration = DOMAIN certificateExpirationTime

\* The observation with labels l is in gauge m after the step as before it.
Kept(m, mAfter, l) == l \in DOMAIN mAfter /\ mAfter[l] = m[l]

\* C32: a reconciliation that finds the secret deletes no certificate
\* observation: the fetch, a failed fetch and the return leave both gauges as
\* they are, an iteration changes at most the two observations of its key and
\* only when the key is recognised and well-formed, and an observation leaves
\* a gauge only when the secret is found missing.
C32_StaleObservationsKept ==
    [][/\ (\E d \in CertificateSecrets : WatchReconcileSecretFound(d)) =>
             UNCHANGED <<certificateExpirationTime, certificateDaysUntilExpiration>>
       /\ WatchReconcileSecretFetchError =>
             UNCHANGED <<certificateExpirationTime, certificateDaysUntilExpiration>>
       /\ WatchReturnSecret =>
             UNCHANGED <<certificateExpirationTime, certificateDaysUntilExpiration>>
       /\ \A key \in SecretKeys, now \in Times :
             WatchCheckCertificate(key, now) =>
                LET evaluated_again ==
                        key \in AllowList /\ WellFormed(secret[SeqWorker].data[key])
                IN /\ \A l \in DOMAIN certificateExpirationTime :
                         (l # IssuerLabels(key) \/ ~evaluated_again) =>
                            Kept(certificateExpirationTime,
                                 certificateExpirationTime', l)
                   /\ \A l \in DOMAIN certificateDaysUntilExpiration :
                         (l # IssuerLabels(key) \/ ~evaluated_again) =>
                            Kept(certificateDaysUntilExpiration,
                                 certificateDaysUntilExpiration', l)
                   /\ IssuerLabels(key) \in DOMAIN certificateExpirationTime =>
                         IssuerLabels(key) \in DOMAIN certificateExpirationTime'
       /\ ( \/ DOMAIN certificateExpirationTime
                  \ DOMAIN certificateExpirationTime' # {}
            \/ DOMAIN certificateDaysUntilExpiration
                  \ DOMAIN certificateDaysUntilExpiration' # {} )
             => WatchReconcileSecretNotFound]_vars

\* C32 witness: the loop has ended for a secret in which ca.crt is malformed
\* and crt.pem is gone; the observations published earlier for both keys are
\* still there.
C32_Witness ==
    /\ pc[SeqWorker] = "certloop"
    /\ remaining[SeqWorker] = {}
    /\ DOMAIN secret[SeqWorker].data = {"ca.crt"}
    /\ secret[SeqWorker].data["ca.crt"] = <<JunkBlock>>
    /\ {IssuerLabels("ca.crt"), IssuerLabels("crt.pem")} \subseteq
          DOMAIN certificateExpirationTime \cap DOMAIN certificateDaysUntilExpiration

\* C33: a step that changes the map or the termination gauge belongs to a
\* reconciliation routed to the pod path whose request is not
\* linkerd/linkerd-identity-issuer; a step that changes a certificate gauge
\* belongs to one routed to the certificate path whose request is
\* linkerd/linkerd-identity-issuer; and that request never takes the pod path.
C33_PathsIsolated ==
    [][/\ (observedRestarts' # observedRestarts
             \/ podLastTerminationInfo' # podLastTerminationInfo) =>
             (last'.route = "pod" /\ last'.req # IssuerRequest)
       /\ (certificateExpirationTime' # certificateExpirationTime
             \/ certificateDaysUntilExpiration' # certificateDaysUntilExpiration) =>
             (last'.route = "certificate" /\ last'.req = IssuerRequest)
       /\ last'.req = IssuerRequest => last'.route = "certificate"
       /\ (last'.req # IssuerRequest /\ last'.route # "none") => last'.route = "pod"]_vars

\* C33 witness: a pod named linkerd-identity-issuer in another namespace is
\* tracked and has a termination observation, next to the certificate
\* observations of the issuer secret.
C33_Witness ==
    /\ containerKey("default", "linkerd-identity-issuer", "app") \in DOMAIN observedRestarts
    /\ \E l \in DOMAIN podLastTerminationInfo : l.pod = "linkerd-identity-issuer"
    /\ ~IssuerCleared
    /\ last.req = IssuerRequest
    /\ pc[SeqWorker] = "idle"

====
